---- MODULE Spec2Model ----
(***************************************************************************)
(* Model of the conversational orchestrator of python-mcp-http-example:    *)
(*   MCPClient   (src/src/llm_controls/mcp_http_client.py)                 *)
(*   ChatSession (src/src/llm_controls/chat_session.py)                    *)
(* Coroutines are modelled as tasks; one action is the code that runs      *)
(* between two suspension points (await) of a task.                        *)
(***************************************************************************)
EXTENDS Integers, Sequences, FiniteSets, TLC

\* ------------------------------------------------------------------ bounds
NumClients == 2
MaxReads == 1
MaxCalls == 4
MaxRetries == 2
MaxFailedReads == 2

\* ------------------------------------------------------- program constants
DefaultRetries == 2
DefaultTotal == 1

Clients == 1..NumClients
Tasks == {"main", "other"}
Main == "main"
NoTask == "none"

\* Exceptions the collaborators (transport, remote server, LM endpoint) can
\* raise.  ValidationError is a subclass of ValueError, ConnError is not.
Errors == {"ConnError", "ValidationError"}

\* what the transport raises when it is opened, queried or closed
ConnErrors == {"ConnError"}

\* what a callback of the exit stack raises
CloseErrors == {"CloseError"}

IsValueError(e) == e \in {"ValueError", "ValidationError", "JSONDecodeError"}

\* Raw tool results (call_tool returns Any).
\* A mapping is told by type "dict"; hasProgress and hasTotal say which of the
\* keys progress and total it has, v and total are their values.
NoResult == [type |-> "none", v |-> 0, hasProgress |-> FALSE, hasTotal |-> FALSE, total |-> 0]

IntResult(n) == [type |-> "int", v |-> n, hasProgress |-> FALSE, hasTotal |-> FALSE, total |-> 0]

ProgressOnly(p) ==
    [type |-> "dict", v |-> p, hasProgress |-> TRUE, hasTotal |-> FALSE, total |-> 0]

ProgressTotal(p, t) ==
    [type |-> "dict", v |-> p, hasProgress |-> TRUE, hasTotal |-> TRUE, total |-> t]

TotalOnly(t) ==
    [type |-> "dict", v |-> 0, hasProgress |-> FALSE, hasTotal |-> TRUE, total |-> t]

ToolResults == {IntResult(5), ProgressTotal(3, 10), ProgressOnly(3), ProgressTotal(1, 0),
                TotalOnly(10)}

\* The tool lists a remote server may advertise.
ToolLists == {<<"add">>, <<"sub">>}

VARIABLES
    session,        \* session[c]: self.session is not None
    exit_stack,     \* exit_stack[c]: the callbacks of self.exit_stack, top last
    lock,           \* lock[c]: the task holding self._cleanup_lock, or NoTask
    remoteTools,    \* remoteTools[c]: what the remote server of c advertises
    op,             \* op[t]: the MCPClient coroutine task t is running
    res,            \* res[t]: how the last coroutine of task t ended
    released,       \* released[c]: how often the transport of c was released
    cleaned,        \* cleaned[c]: cleanup() has returned on c since c was last
                    \* initialized
    opened,         \* opened[c]: how often a transport of c was opened
    cleanupLog,     \* the clients cleanup() was called on, in call order
    calls,          \* number of coroutines started by the callers of SpecClient
    pc,             \* where chat_loop is
    idx,            \* the position of the running for loop in self.mcp_clients
    messages,       \* the conversation
    tools,          \* what get_available_tools has collected
    llm_response,   \* the first reply of the LM in this cycle
    tool_result,    \* the ToolResponse of this cycle
    after,          \* where cleanup_clients goes on: "raise" or "exit"
    raisedErr,      \* the exception chat_loop is propagating, "none" when none
    reads,          \* inputs read that did not end the loop
    hist,           \* what chat_loop has done so far
    cyc             \* what the current cycle has done so far

chatVars == <<pc, idx, messages, tools, llm_response, tool_result, after, raisedErr,
              reads, hist, cyc>>

\* what no MCPClient coroutine changes
env == <<remoteTools, calls, chatVars>>

\* what only initialization changes
env2 == <<env, cleanupLog>>

clientVars == <<session, exit_stack, lock, remoteTools, op, res, released, cleaned, opened,
                cleanupLog>>

IdleOp == [name |-> "idle", c |-> 0, pc |-> "none", attempt |-> 0, retries |-> 0,
           log |-> <<>>, err |-> "none", kind |-> "none", closeErr |-> "none",
           sent |-> 0, tool |-> "none", cb |-> "none", args |-> "none"]

NoRes == [status |-> "none", name |-> "none", c |-> 0, val |-> NoResult, list |-> <<>>,
          err |-> "none", log |-> <<>>, sent |-> 0, retries |-> 0]

\* A coroutine of `name` on client c, not yet run.
NewOp(name, c, kind, tool, retries) ==
    [IdleOp EXCEPT !.name = name, !.c = c, !.pc = "enter", !.kind = kind,
                   !.tool = tool, !.retries = retries]

\* The coroutine of task t ends: it returns (status "ok") or raises ("err").
Finish(t, o, status, val, list, err) ==
    /\ op' = [op EXCEPT ![t] = IdleOp]
    /\ res' = [res EXCEPT ![t] = [status |-> status, name |-> o.name, c |-> o.c,
                                  val |-> val, list |-> list, err |-> err,
                                  log |-> o.log, sent |-> o.sent,
                                  retries |-> o.retries]]

Running(t, name, at) == op[t].name = name /\ op[t].pc = at

\* ---------------------------------------------------------- remote server
Kinds == {"tools", "resources", "resourceTemplates", "prompts"}

RemoteEntities(c, kind) ==
    CASE kind = "tools" -> remoteTools[c]
      [] kind = "resources" -> <<"config">>
      [] kind = "resourceTemplates" -> <<>>
      [] OTHER -> <<"greet">>

\* The reply of the remote list request: an iterable of (field, value) pairs.
Response(c, kind) == << <<"nextCursor", <<>> >>, <<kind, RemoteEntities(c, kind)>> >>

\* The transport connection of c is open.
Connected(c) == \E i \in 1..Len(exit_stack[c]) : exit_stack[c][i] = "transport"

\* ------------------------------------------------- MCPClient.initialization
InitEnter(t) ==
    /\ Running(t, "init", "enter")
    /\ op' = [op EXCEPT ![t].pc = "conn"]
    /\ UNCHANGED <<session, exit_stack, lock, env2, res, released, cleaned, opened>>

\* await self.cleanup() stands between the except clause and its raise
AwaitsCleanupNever(e) == FALSE

AwaitsCleanup(e) == TRUE

\* except Exception: log, await self.cleanup(), raise
InitFailed(t, e) ==
    IF AwaitsCleanup(e)
    THEN /\ op' = [op EXCEPT ![t].pc = "cl_enter", ![t].err = e]
         /\ cleanupLog' = Append(cleanupLog, op[t].c)
         /\ UNCHANGED <<session, exit_stack, res>>
    ELSE /\ Finish(t, [op[t] EXCEPT !.err = e], "err", NoResult, <<>>, e)
         /\ UNCHANGED <<session, exit_stack, cleanupLog>>

InitConn(t) ==
    /\ Running(t, "init", "conn")
    /\ \/ /\ exit_stack' = [exit_stack EXCEPT ![op[t].c] = Append(@, "transport")]
          /\ op' = [op EXCEPT ![t].pc = "sess"]
          /\ opened' = [opened EXCEPT ![op[t].c] = @ + 1]
          /\ UNCHANGED <<session, res, cleanupLog>>
       \/ (\E e \in ConnErrors : InitFailed(t, e)) /\ UNCHANGED opened
    /\ UNCHANGED <<lock, env, released, cleaned>>

InitSess(t) ==
    /\ Running(t, "init", "sess")
    /\ \/ /\ exit_stack' = [exit_stack EXCEPT ![op[t].c] = Append(@, "session")]
          /\ op' = [op EXCEPT ![t].pc = "hand"]
          /\ UNCHANGED <<session, res, cleanupLog>>
       \/ \E e \in ConnErrors : InitFailed(t, e)
    /\ UNCHANGED <<lock, env, released, cleaned, opened>>

InitHand(t) ==
    /\ Running(t, "init", "hand")
    /\ \/ /\ Connected(op[t].c)
          /\ session' = [session EXCEPT ![op[t].c] = TRUE]
          /\ cleaned' = [cleaned EXCEPT ![op[t].c] = FALSE]
          /\ Finish(t, op[t], "ok", NoResult, <<>>, "none")
          /\ UNCHANGED <<exit_stack, cleanupLog>>
       \/ (\E e \in ConnErrors : InitFailed(t, e)) /\ UNCHANGED cleaned
    /\ UNCHANGED <<lock, env, released, opened>>

\* ------------------------------------------------------- MCPClient.cleanup
\* except Exception as e: logging.error(...) -- the failure is not re-raised
CleanupRaisesNoGuard(closeErr) == closeErr # "none"

CleanupRaises(closeErr) == FALSE

\* AsyncExitStack.aclose takes each callback off the stack before running it
Pop(stack) == SubSeq(stack, 1, Len(stack) - 1)

\* the end of cleanup(): aclose() has run every callback
CleanupEnd(t, o) ==
    /\ session' = [session EXCEPT ![o.c] = IF o.closeErr = "none" THEN FALSE ELSE @]
    /\ lock' = [lock EXCEPT ![o.c] = NoTask]
    /\ cleaned' = [cleaned EXCEPT ![o.c] = TRUE]
    /\ IF o.name = "init" THEN Finish(t, o, "err", NoResult, <<>>, o.err)
       ELSE IF CleanupRaises(o.closeErr)
            THEN Finish(t, o, "err", NoResult, <<>>, o.closeErr)
            ELSE Finish(t, o, "ok", NoResult, <<>>, "none")

\* aclose(): run the next callback, or end when none is left
Aclose(t, o) ==
    IF exit_stack[o.c] = <<>>
    THEN CleanupEnd(t, o) /\ UNCHANGED <<exit_stack, released>>
    ELSE LET cb == exit_stack[o.c][Len(exit_stack[o.c])] IN
         /\ exit_stack' = [exit_stack EXCEPT ![o.c] = Pop(@)]
         /\ released' = [released EXCEPT ![o.c] = IF cb = "transport" THEN @ + 1 ELSE @]
         /\ op' = [op EXCEPT ![t] = [o EXCEPT !.pc = "cl_closing", !.cb = cb]]
         /\ UNCHANGED <<session, res, cleaned>>
         /\ lock' = [lock EXCEPT ![o.c] = t]

LockFree(c) == lock[c] = NoTask

\* async with self._cleanup_lock: ... await self.exit_stack.aclose()
CleanupAcquire(t) ==
    /\ Running(t, "cleanup", "enter") \/ Running(t, "init", "cl_enter")
    /\ LockFree(op[t].c)
    /\ Aclose(t, op[t])
    /\ UNCHANGED <<env2, opened>>

\* the callback awaited by aclose() returns or raises
CleanupClose(t) ==
    /\ op[t].pc = "cl_closing"
    /\ \/ Aclose(t, op[t])
       \/ \E e \in CloseErrors : Aclose(t, [op[t] EXCEPT !.closeErr = e])
    /\ UNCHANGED <<env2, opened>>

\* ------------------------------------------------ MCPClient._list_entities
\* for item in response: if isinstance(item, tuple) and item[0] == response_key
RECURSIVE ListEntities(_, _)
ListEntities(response, response_key) ==
    IF response = <<>> THEN <<>>
    ELSE (IF Head(response)[1] = response_key THEN Head(response)[2] ELSE <<>>)
         \o ListEntities(Tail(response), response_key)

\* if not self.session: raise RuntimeError(...)
NotInitialized(c) == ~session[c]

ListEnter(t) ==
    /\ Running(t, "list", "enter")
    /\ IF NotInitialized(op[t].c)
       THEN Finish(t, op[t], "err", NoResult, <<>>, "NotInitialized")
       ELSE /\ op' = [op EXCEPT ![t].pc = "await", ![t].sent = @ + 1]
            /\ UNCHANGED res
    /\ UNCHANGED <<session, exit_stack, lock, env2, released, cleaned, opened>>

ListReply(t) ==
    /\ Running(t, "list", "await")
    /\ \/ /\ Connected(op[t].c)
          /\ Finish(t, op[t], "ok", NoResult,
                    ListEntities(Response(op[t].c, op[t].kind), op[t].kind), "none")
       \/ \E e \in ConnErrors : Finish(t, op[t], "err", NoResult, <<>>, e)
    /\ UNCHANGED <<session, exit_stack, lock, env2, released, cleaned, opened>>

\* -------------------------------------------------- MCPClient.execute_tool
\* while attempt < retries / if attempt < retries
MoreAttemptsOffByOne(attempt, retries) == attempt <= retries

MoreAttemptsAtLeastOnce(attempt, retries) == attempt < retries \/ attempt = 0

MoreAttempts(attempt, retries) == attempt < retries

\* the bare raise of the except clause re-raises the error just caught
Reraise(e, log) == e

Attempt(ok, remote, err, val) == [ok |-> ok, remote |-> remote, err |-> err, val |-> val]

\* except Exception as e: attempt += 1; sleep and go on, or raise
ExecFailed(t, o, remote, e) ==
    LET o2 == [o EXCEPT !.attempt = @ + 1,
                        !.log = Append(@, Attempt(FALSE, remote, e, NoResult))] IN
    IF MoreAttempts(o2.attempt, o2.retries)
    THEN op' = [op EXCEPT ![t] = [o2 EXCEPT !.pc = "sleep"]] /\ UNCHANGED res
    ELSE Finish(t, o2, "err", NoResult, <<>>, Reraise(e, o2.log))

\* the head of the while loop, up to the await of session.call_tool
ExecLoop(t, o) ==
    IF ~MoreAttempts(o.attempt, o.retries)
    THEN Finish(t, o, "ok", NoResult, <<>>, "none")
    ELSE IF session[o.c]
         THEN op' = [op EXCEPT ![t] = [o EXCEPT !.pc = "await", !.sent = @ + 1]]
              /\ UNCHANGED res
         ELSE ExecFailed(t, o, FALSE, "AttributeError")

ExecEnter(t) ==
    /\ Running(t, "exec", "enter")
    /\ IF NotInitialized(op[t].c)
       THEN Finish(t, op[t], "err", NoResult, <<>>, "NotInitialized")
       ELSE ExecLoop(t, op[t])
    /\ UNCHANGED <<session, exit_stack, lock, env2, released, cleaned, opened>>

\* session.call_tool returns or raises; arguments that are no mapping are
\* rejected by the validation of the request (a ValueError)
ExecReply(t) ==
    /\ Running(t, "exec", "await")
    /\ \/ /\ Connected(op[t].c)
          /\ op[t].args # "scalar"
          /\ op[t].tool \in {remoteTools[op[t].c][i] : i \in 1..Len(remoteTools[op[t].c])}
          /\ \E r \in ToolResults :
                Finish(t, [op[t] EXCEPT !.log = Append(@, Attempt(TRUE, TRUE, "none", r))],
                       "ok", r, <<>>, "none")
       \/ \E e \in Errors :
             /\ op[t].args = "scalar" => IsValueError(e)
             /\ ExecFailed(t, op[t], TRUE, e)
    /\ UNCHANGED <<session, exit_stack, lock, env2, released, cleaned, opened>>

\* asyncio.sleep(delay) is over
ExecWake(t) ==
    /\ Running(t, "exec", "sleep")
    /\ ExecLoop(t, op[t])
    /\ UNCHANGED <<session, exit_stack, lock, env2, released, cleaned, opened>>

\* one step of the MCPClient coroutine task t is running
ClientStep(t) ==
    \/ InitEnter(t) \/ InitConn(t) \/ InitSess(t) \/ InitHand(t)
    \/ CleanupAcquire(t) \/ CleanupClose(t)
    \/ ListEnter(t) \/ ListReply(t)
    \/ ExecEnter(t) \/ ExecReply(t) \/ ExecWake(t)

\* ============================================================ ChatSession
\* Texts are sequences of tokens; a Turn is a role and a text.
Turn(role, content) == [role |-> role, content |-> content]

\* FENCE is the code-fence marker (three backticks), BQ one backtick
Fences == {"FENCE", "FENCEjson", "FENCEJSON"}
StripChars == {"BQ", " ", "\n"}
Whitespace == {" ", "\n"}
Keys == {"\"tool\":", "\"arguments\":", "\"note\":"}
Scalars == {"\"add\"", "\"sub\"", "\"x\"", "5"}

RECURSIVE LStrip(_, _)
LStrip(s, chars) ==
    IF s # <<>> /\ Head(s) \in chars THEN LStrip(Tail(s), chars) ELSE s

RECURSIVE RStrip(_, _)
RStrip(s, chars) ==
    IF s # <<>> /\ s[Len(s)] \in chars THEN RStrip(SubSeq(s, 1, Len(s) - 1), chars) ELSE s

\* str.strip(chars)
StripNothing(s, chars) == s

Strip(s, chars) == RStrip(LStrip(s, chars), chars)

IsFence(tok) == tok \in Fences

NotFence(tok) == ~IsFence(tok)

NotWhitespace(tok) == tok \notin Whitespace

\* re.sub of the code-fence markers (json suffix optional, any case), then
\* strip of backticks, blanks and newlines
CleanedText(json_text) == Strip(SelectSeq(json_text, NotFence), StripChars)

Positions(s, tok) == {i \in 1..Len(s) : s[i] = tok}

Min(S) == CHOOSE x \in S : \A y \in S : x <= y

Max(S) == CHOOSE x \in S : \A y \in S : x >= y

\* re.search, greedy and DOTALL: from the first opening brace to the last
\* closing brace
HasJsonSpan(cleaned_text) ==
    /\ Positions(cleaned_text, "{") # {}
    /\ \E j \in Positions(cleaned_text, "}") : j > Min(Positions(cleaned_text, "{"))

\* clean_json_response: the span, when HasJsonSpan (else ValueError is raised)
clean_json_response(json_text) ==
    LET cleaned_text == CleanedText(json_text) IN
    SubSeq(cleaned_text, Min(Positions(cleaned_text, "{")), Max(Positions(cleaned_text, "}")))

\* json.loads: value := scalar | object, object := { } | { key value (, key value)* }
\* ValueEnd(s, i) is the index after the value that starts at i, 0 when there is none.
RECURSIVE ValueEnd(_, _)
RECURSIVE MembersEnd(_, _)
ValueEnd(s, i) ==
    IF i > Len(s) THEN 0
    ELSE IF s[i] \in Scalars THEN i + 1
    ELSE IF s[i] = "{"
         THEN IF i + 1 <= Len(s) /\ s[i + 1] = "}" THEN i + 2 ELSE MembersEnd(s, i + 1)
    ELSE 0

MembersEnd(s, i) ==
    IF i > Len(s) \/ s[i] \notin Keys THEN 0
    ELSE LET j == ValueEnd(s, i + 1) IN
         IF j = 0 \/ j > Len(s) THEN 0
         ELSE IF s[j] = "}" THEN j + 1
         ELSE IF s[j] = "," THEN MembersEnd(s, j + 1)
         ELSE 0

JsonTokens(span) == SelectSeq(span, NotWhitespace)

\* json.loads(span) does not raise JSONDecodeError
JsonValid(span) == ValueEnd(JsonTokens(span), 1) = Len(JsonTokens(span)) + 1

Absent == [present |-> FALSE, isObj |-> FALSE, tok |-> "none"]

\* The members of the top-level object from index i on; a later key wins.
RECURSIVE Members(_, _, _)
Members(s, i, acc) ==
    IF i > Len(s) \/ s[i] \notin Keys THEN acc
    ELSE LET j == ValueEnd(s, i + 1)
             v == [present |-> TRUE, isObj |-> s[i + 1] = "{",
                   tok |-> IF s[i + 1] = "{" THEN "object" ELSE s[i + 1]]
         IN Members(s, j + 1, [acc EXCEPT ![s[i]] = v])

\* json.loads(span), for a valid span: the dict, as key -> value
json_loads(span) == Members(JsonTokens(span), 2, [k \in Keys |-> Absent])

\* all(key in tool_call for key in (tool, arguments))
HasCallKeysAny(tool_call) ==
    tool_call["\"tool\":"].present \/ tool_call["\"arguments\":"].present

HasCallKeys(tool_call) ==
    tool_call["\"tool\":"].present /\ tool_call["\"arguments\":"].present

\* What process_llm_response makes of the reply before any tool is looked up.
ParseKind(reply) ==
    IF ~HasJsonSpan(CleanedText(reply)) THEN "nojson"
    ELSE IF ~JsonValid(clean_json_response(reply)) THEN "badjson"
    ELSE IF ~HasCallKeys(json_loads(clean_json_response(reply))) THEN "nokeys"
    ELSE "call"

\* tool_call[tool], as the name it is compared to (the token without quotes)
Unquote(tok) ==
    CASE tok = "\"add\"" -> "add"
      [] tok = "\"sub\"" -> "sub"
      [] tok = "\"x\"" -> "x"
      [] OTHER -> tok

\* tool_call[arguments], as the kind of value it is
Arguments(reply) ==
    IF json_loads(clean_json_response(reply))["\"arguments\":"].isObj
    THEN "object" ELSE "scalar"

ToolName(reply) ==
    Unquote(json_loads(clean_json_response(reply))["\"tool\":"].tok)

\* input(...).strip() and .lower(), on the tokens the user can type
Lower(tok) ==
    CASE tok = "QUIT" -> "quit"
      [] tok = "Exit" -> "exit"
      [] tok = "STOP" -> "stop"
      [] tok = "What is 2+3?" -> "what is 2+3?"
      [] OTHER -> tok

QuitPhrases == {"quit", "exit", "stop"}

\* user_input.lower() in (quit, exit, stop)
IsQuitExact(user_input) == Len(user_input) = 1 /\ user_input[1] \in QuitPhrases

IsQuit(user_input) == Len(user_input) = 1 /\ Lower(user_input[1]) \in QuitPhrases

\* what the user types on one line
Inputs == {<<>>, <<" ">>, <<"quit">>, <<"Exit", " ">>, <<"STOP">>, <<" ", "What is 2+3?">>}

\* what the LM endpoint answers
R_plain == <<"Hi there!">>
R_call == <<"{", "\"tool\":", "\"add\"", ",", "\"arguments\":", "{", "}", "}">>
R_badargs == <<"{", "\"tool\":", "\"add\"", ",", "\"arguments\":", "5", "}">>
R_nokeys == <<"Sure:", "FENCEjson", "{", "\"tool\":", "\"add\"", "}", "FENCE">>
R_badjson == <<"{", "\"tool\":", "}">>

Replies == {R_plain, R_call, R_badargs, R_nokeys, R_badjson}

Finals == {<<"The result is 5.">>, <<>>}

LMErrors == {"HTTPStatusError"}

\* ToolResponse
NoToolResponse == [content |-> NoResult, is_progress |-> FALSE, progress |-> 0, total |-> 0]

\* isinstance(result, dict) and progress in result; result.get(total, 1)
ClassifyNoDefault(result) ==
    IF result.type = "dict" /\ result.hasProgress
    THEN [content |-> result, is_progress |-> TRUE, progress |-> result.v,
          total |-> result.total]
    ELSE [content |-> result, is_progress |-> FALSE, progress |-> 0, total |-> 0]

Classify(result) ==
    IF result.type = "dict" /\ result.hasProgress
    THEN [content |-> result, is_progress |-> TRUE, progress |-> result.v,
          total |-> IF result.hasTotal THEN result.total ELSE DefaultTotal]
    ELSE [content |-> result, is_progress |-> FALSE, progress |-> 0, total |-> 0]

\* str(tool_result.content)
Str(result) ==
    CASE result.type = "int" -> <<ToString(result.v)>>
      [] result.type = "dict" /\ result.hasProgress /\ result.hasTotal ->
            <<"{progress: ", ToString(result.v), ", total: ", ToString(result.total), "}">>
      [] result.type = "dict" /\ result.hasProgress ->
            <<"{progress: ", ToString(result.v), "}">>
      [] result.type = "dict" -> <<"{total: ", ToString(result.total), "}">>
      [] OTHER -> <<"None">>

\* the format .1f of (progress / total) * 100, for total # 0
Percent(progress, total) ==
    LET tenths == (progress * 2000 + total) \div (2 * total) IN
    <<ToString(tenths \div 10), ".", ToString(tenths % 10), "%">>

progress_msg(tr) ==
    <<"Progress: ", ToString(tr.progress), "/", ToString(tr.total), " (">>
    \o Percent(tr.progress, tr.total) \o <<")">>

\* the message of the except clause of the loop
ErrorOccurred(e) == <<"Error occurred: ", e>>

\* what process_llm_response returns when the tool call raised e:
\* except (ValueError, json.JSONDecodeError): return llm_response
\* except Exception: return the text Error executing tool
ProcessError(e, reply) == IF IsValueError(e) THEN reply ELSE <<"Error executing tool: ", e>>

\* format_for_llm, build_system_message
RECURSIVE ToolsDescription(_)
ToolsDescription(ts) ==
    IF ts = <<>> THEN <<>> ELSE <<"Tool: ", Head(ts)>> \o ToolsDescription(Tail(ts))

build_system_message(ts) ==
    Turn("system", <<"Available tools:">> \o ToolsDescription(ts))

NoCycle == [start |-> 0, reply |-> <<>>, kind |-> "none", llm |-> 0, lmIn |-> <<>>,
            execOn |-> {}, listed |-> 0, calls |-> 0, fail |-> "none", err |-> "none",
            result |-> NoResult, final |-> <<>>, ended |-> FALSE]

\* disc is the record of the discovery under way: who was asked, who answered
NoHist == [initLog |-> <<>>, listReqs |-> 0, inputReads |-> 0,
           llmCalls |-> 0, exit |-> "none", failedAt |-> 0, disc |-> <<>>]

\* ------------------------------------------------------ chat_loop, startup
clientState == <<session, exit_stack, lock, remoteTools, released, cleaned, opened>>

\* what only a call of cleanup() changes
quiet == <<clientState, cleanupLog>>

Returned(at) == pc = at /\ op[Main].name = "idle"

Start(o) == op' = [op EXCEPT ![Main] = o]

\* the awaiting caller has taken the outcome of the coroutine
Taken == res' = [res EXCEPT ![Main] = NoRes]

\* initialize_clients: await client.initialization()
CL_InitCall ==
    /\ pc = "init"
    /\ Start(NewOp("init", idx, "none", "none", 0))
    /\ pc' = "init_wait"
    /\ hist' = [hist EXCEPT !.initLog = Append(@, idx)]
    /\ UNCHANGED <<quiet, calls, res, idx, messages, tools, llm_response,
                   tool_result, after, raisedErr, reads, cyc>>

\* the next client to initialize after client i
NextToInit(i) == i + 1

\* except Exception: log, cleanup_clients(), raise
AbortsStartupNever(status) == FALSE

AbortsStartup(status) == status # "ok"

\* initialization() returned, or raised: cleanup_clients() and raise
CL_InitRet ==
    /\ Returned("init_wait")
    /\ IF ~AbortsStartup(res[Main].status)
       THEN /\ idx' = IF NextToInit(idx) > NumClients THEN 1 ELSE NextToInit(idx)
            /\ pc' = IF NextToInit(idx) > NumClients THEN "discover" ELSE "init"
            /\ UNCHANGED <<after, raisedErr>>
       ELSE /\ idx' = 1
            /\ pc' = "cc"
            /\ after' = "raise"
            /\ raisedErr' = res[Main].err
    /\ hist' = IF res[Main].status = "ok" THEN hist
               ELSE [hist EXCEPT !.failedAt = idx, !.exit = "startup"]
    /\ Taken
    /\ UNCHANGED <<quiet, calls, op, messages, tools, llm_response,
                   tool_result, reads, cyc>>

\* ------------------------------------------------------- cleanup_clients
CL_CleanupCall ==
    /\ pc = "cc"
    /\ Start(NewOp("cleanup", idx, "none", "none", 0))
    /\ pc' = "cc_wait"
    /\ cleanupLog' = Append(cleanupLog, idx)
    /\ UNCHANGED <<clientState, calls, res, idx, messages, tools, llm_response,
                   tool_result, after, raisedErr, reads, hist, cyc>>

\* the next client to clean up after client i
NextToCleanStop(i) == NumClients + 1

NextToClean(i) == i + 1

\* cleanup() returned; a raised error is logged as a warning and the loop goes on
CL_CleanupRet ==
    /\ Returned("cc_wait")
    /\ IF NextToClean(idx) <= NumClients
       THEN idx' = NextToClean(idx) /\ pc' = "cc"
       ELSE idx' = 1 /\ pc' = (IF after = "raise" THEN "finally" ELSE "done")
    /\ Taken
    /\ UNCHANGED <<quiet, calls, op, messages, tools, llm_response,
                   tool_result, after, raisedErr, reads, hist, cyc>>

\* finally: await self.cleanup_clients()
CL_Finally ==
    /\ pc = "finally"
    /\ pc' = "cc"
    /\ idx' = 1
    /\ after' = "exit"
    /\ UNCHANGED <<quiet, calls, op, res, messages, tools, llm_response,
                   tool_result, raisedErr, reads, hist, cyc>>

\* --------------------------------------------------- get_available_tools
CL_ListCall ==
    /\ pc = "discover"
    /\ Start(NewOp("list", idx, "tools", "none", 0))
    /\ pc' = "discover_wait"
    /\ hist' = [hist EXCEPT !.listReqs = @ + 1]
    /\ UNCHANGED <<quiet, calls, res, idx, messages, tools, llm_response,
                   tool_result, after, raisedErr, reads, cyc>>

\* all_tools.extend(tools), or the warning of the except clause
ExtendRestart(all_tools, status, list) == IF status = "ok" THEN list ELSE all_tools

Extend(all_tools, status, list) == IF status = "ok" THEN all_tools \o list ELSE all_tools

\* list_tools() returned or raised: the next client, or return all_tools
CL_ListRet ==
    /\ Returned("discover_wait")
    /\ tools' = Extend(tools, res[Main].status, res[Main].list)
    /\ hist' = [hist EXCEPT !.disc = Append(@, [c |-> idx, ok |-> res[Main].status = "ok"])]
    /\ IF idx + 1 <= NumClients
       THEN idx' = idx + 1 /\ pc' = "discover"
       ELSE idx' = 1 /\ pc' = "build"
    /\ Taken
    /\ UNCHANGED <<quiet, calls, op, messages, llm_response,
                   tool_result, after, raisedErr, reads, cyc>>

\* messages = initial_messages or [self.build_system_message(tools)]
CL_Build ==
    /\ pc = "build"
    /\ \/ /\ messages' = <<build_system_message(tools)>>
          /\ pc' = "input"
          /\ hist' = [hist EXCEPT !.disc = <<>>]
          /\ UNCHANGED raisedErr
       \/ /\ raisedErr' = "AttributeError"
          /\ pc' = "finally"
          /\ hist' = [hist EXCEPT !.exit = "error", !.disc = <<>>]
          /\ UNCHANGED messages
    /\ UNCHANGED <<quiet, calls, op, res, idx, tools, llm_response,
                   tool_result, after, reads, cyc>>

\* ------------------------------------------------------ chat_loop, a cycle
\* the cycle is over: back to input()
EndCycle(msgs, c2) ==
    /\ messages' = msgs
    /\ pc' = "input"
    /\ cyc' = [c2 EXCEPT !.ended = TRUE]

\* what input() can raise instead of returning a line: the user's interrupt
\* and the end of the input source
InputSignals == {"KeyboardInterrupt", "EOFError"}

\* except KeyboardInterrupt: break; any other exception is left to
\* except Exception, which records it and lets the loop go on
LeavesLoopAny(e) == TRUE
LeavesLoop(e) == e = "KeyboardInterrupt"

\* every read of input so far has failed: the conversation is the system
\* message followed by one error Turn per read
OnlyFailedReads ==
    /\ hist.inputReads = reads
    /\ Len(messages) = 1 + reads
    /\ \A i \in 2..Len(messages) : messages[i] = Turn("system", ErrorOccurred("EOFError"))

\* user_input = input(...).strip(), up to the first call of the LM
CL_Input ==
    /\ pc = "input"
    /\ \/ \E e \in InputSignals :
            LET kind == IF e = "KeyboardInterrupt" THEN "interrupt" ELSE "eof" IN
            IF LeavesLoop(e)
            THEN /\ pc' = "finally"
                 /\ hist' = [hist EXCEPT !.inputReads = @ + 1, !.exit = "interrupt"]
                 /\ cyc' = [NoCycle EXCEPT !.start = Len(messages), !.kind = kind]
                 /\ UNCHANGED <<messages, reads>>
            ELSE /\ reads < MaxReads \/ (OnlyFailedReads /\ reads < MaxFailedReads)
                 /\ reads' = reads + 1
                 /\ hist' = [hist EXCEPT !.inputReads = @ + 1]
                 /\ EndCycle(Append(messages, Turn("system", ErrorOccurred(e))),
                             [NoCycle EXCEPT !.start = Len(messages), !.kind = kind,
                                             !.fail = "input", !.err = e])
       \/ \E raw \in Inputs :
            LET user_input == Strip(raw, Whitespace) IN
            IF user_input = <<>>
            THEN /\ reads < MaxReads
                 /\ reads' = reads + 1
                 /\ hist' = [hist EXCEPT !.inputReads = @ + 1]
                 /\ EndCycle(messages,
                             [NoCycle EXCEPT !.start = Len(messages), !.kind = "empty"])
            ELSE IF IsQuit(user_input)
            THEN /\ pc' = "finally"
                 /\ hist' = [hist EXCEPT !.inputReads = @ + 1, !.exit = "quit"]
                 /\ cyc' = [NoCycle EXCEPT !.start = Len(messages), !.kind = "quit"]
                 /\ UNCHANGED <<messages, reads>>
            ELSE /\ reads < MaxReads
                 /\ reads' = reads + 1
                 /\ hist' = [hist EXCEPT !.inputReads = @ + 1]
                 /\ messages' = Append(messages, Turn("user", user_input))
                 /\ pc' = "llm1"
                 /\ cyc' = [NoCycle EXCEPT !.start = Len(messages), !.kind = "text"]
    /\ UNCHANGED <<quiet, calls, op, res, idx, tools, llm_response,
                   tool_result, after, raisedErr>>

\* what the first call of the LM is sent: messages
FirstCallInputLast(msgs) == <<msgs[Len(msgs)]>>

FirstCallInput(msgs) == msgs

\* llm_response = self.llm_client.chat(messages, temperature=0.1), and
\* process_llm_response up to the first await of _execute_tool
CL_LLM1 ==
    /\ pc = "llm1"
    /\ hist' = [hist EXCEPT !.llmCalls = @ + 1]
    /\ LET c1 == [cyc EXCEPT !.llm = @ + 1, !.lmIn = FirstCallInput(messages)] IN
       \/ \E e \in LMErrors :
            /\ EndCycle(Append(messages, Turn("system", ErrorOccurred(e))),
                        [c1 EXCEPT !.fail = "llm1", !.err = e])
            /\ UNCHANGED <<op, idx, llm_response>>
       \/ \E reply \in Replies :
            /\ llm_response' = reply
            /\ IF ParseKind(reply) = "call"
               THEN /\ Start(NewOp("list", 1, "tools", "none", 0))
                    /\ idx' = 1
                    /\ pc' = "route_wait"
                    /\ cyc' = [c1 EXCEPT !.reply = reply, !.kind = "call", !.listed = 1]
                    /\ UNCHANGED messages
               ELSE /\ EndCycle(Append(messages, Turn("assistant", reply)),
                                [c1 EXCEPT !.reply = reply, !.kind = ParseKind(reply)])
                    /\ UNCHANGED <<op, idx>>
    /\ UNCHANGED <<quiet, calls, res, tools, tool_result, after, raisedErr, reads>>

Range(seq) == {seq[i] : i \in 1..Len(seq)}

\* _execute_tool: tools = await mcp_client.list_tools() returned or raised
CL_RouteRet ==
    /\ Returned("route_wait")
    /\ LET r == res[Main]
           name == ToolName(llm_response) IN
       IF r.status = "err"
       THEN /\ EndCycle(Append(messages,
                               Turn("assistant", ProcessError(r.err, llm_response))),
                        [cyc EXCEPT !.fail = "listing", !.err = r.err])
            /\ idx' = 1 /\ UNCHANGED op
       ELSE IF name \in Range(r.list)
       THEN /\ Start([NewOp("exec", idx, "none", name, DefaultRetries)
                          EXCEPT !.args = Arguments(llm_response)])
            /\ pc' = "exec_wait"
            /\ UNCHANGED <<messages, cyc, idx>>
       ELSE IF idx + 1 <= NumClients
       THEN /\ Start(NewOp("list", idx + 1, "tools", "none", 0))
            /\ idx' = idx + 1
            /\ cyc' = [cyc EXCEPT !.listed = @ + 1]
            /\ UNCHANGED <<messages, pc>>
       ELSE /\ EndCycle(Append(messages,
                               Turn("assistant", ProcessError("ValueError", llm_response))),
                        [cyc EXCEPT !.fail = "routing", !.err = "ValueError"])
            /\ idx' = 1 /\ UNCHANGED op
    /\ Taken
    /\ UNCHANGED <<quiet, calls, tools, llm_response, tool_result, after,
                   raisedErr, reads, hist>>

\* messages + [the system Turn with str(tool_result.content)]
SecondCallInputNoResult(msgs, tr) == msgs

SecondCallInput(msgs, tr) == msgs \o <<Turn("system", Str(tr.content))>>

\* execute_tool returned or raised, up to the second call of the LM
CL_ExecRet ==
    /\ Returned("exec_wait")
    /\ LET r == res[Main]
           c1 == [cyc EXCEPT !.execOn = IF r.sent > 0 THEN {idx} ELSE {},
                             !.calls = r.sent]
           tr == Classify(r.val)
           m1 == Append(messages, Turn("assistant", llm_response)) IN
       IF r.status = "err"
       THEN /\ EndCycle(Append(messages,
                               Turn("assistant", ProcessError(r.err, llm_response))),
                        [c1 EXCEPT !.fail = "exec", !.err = r.err])
            /\ UNCHANGED tool_result
       ELSE IF tr.is_progress /\ tr.total = 0
       THEN /\ EndCycle(Append(m1, Turn("system", ErrorOccurred("ZeroDivisionError"))),
                        [c1 EXCEPT !.fail = "format", !.err = "ZeroDivisionError",
                                   !.result = r.val])
            /\ UNCHANGED tool_result
       ELSE /\ tool_result' = tr
            /\ messages' = IF tr.is_progress
                           THEN Append(m1, Turn("system", progress_msg(tr))) ELSE m1
            /\ pc' = "llm2"
            /\ cyc' = [c1 EXCEPT !.result = r.val]
    /\ Taken
    /\ idx' = 1
    /\ UNCHANGED <<quiet, calls, op, tools, llm_response, after,
                   raisedErr, reads, hist>>

\* final_response = self.llm_client.chat(messages + [...])
CL_LLM2 ==
    /\ pc = "llm2"
    /\ hist' = [hist EXCEPT !.llmCalls = @ + 1]
    /\ LET c1 == [cyc EXCEPT !.llm = @ + 1,
                             !.lmIn = SecondCallInput(messages, tool_result)] IN
       \/ \E e \in LMErrors :
            EndCycle(Append(messages, Turn("system", ErrorOccurred(e))),
                     [c1 EXCEPT !.fail = "llm2", !.err = e])
       \/ \E final_response \in Finals :
            EndCycle(IF final_response # <<>>
                     THEN Append(messages, Turn("assistant", final_response))
                     ELSE messages,
                     [c1 EXCEPT !.final = final_response, !.kind = "answered"])
    /\ UNCHANGED <<quiet, calls, op, res, idx, tools, llm_response, tool_result,
                   after, raisedErr, reads>>

\* ---------------------------------------------------------- specifications
InitClientState ==
    /\ session = [c \in Clients |-> FALSE]
    /\ exit_stack = [c \in Clients |-> <<>>]
    /\ lock = [c \in Clients |-> NoTask]
    /\ op = [t \in Tasks |-> IdleOp]
    /\ res = [t \in Tasks |-> NoRes]
    /\ released = [c \in Clients |-> 0]
    /\ opened = [c \in Clients |-> 0]
    /\ cleaned = [c \in Clients |-> FALSE]
    /\ cleanupLog = <<>>
    /\ calls = 0

InitChatState ==
    /\ idx = 1
    /\ messages = <<>>
    /\ tools = <<>>
    /\ llm_response = <<>>
    /\ tool_result = NoToolResponse
    /\ after = "none"
    /\ raisedErr = "none"
    /\ reads = 0
    /\ hist = NoHist
    /\ cyc = NoCycle

\* main(): ChatSession(mcp_clients, llm_client).chat_loop()
Init ==
    /\ InitClientState
    /\ InitChatState
    /\ remoteTools \in [Clients -> ToolLists]
    /\ pc = "init"

vars == <<clientVars, calls, chatVars>>

Next ==
    \/ CL_InitCall \/ CL_InitRet \/ CL_CleanupCall \/ CL_CleanupRet \/ CL_Finally
    \/ CL_ListCall \/ CL_ListRet \/ CL_Build
    \/ CL_Input \/ CL_LLM1 \/ CL_RouteRet \/ CL_ExecRet \/ CL_LLM2
    \/ \E t \in Tasks : ClientStep(t)

Spec == Init /\ [][Next]_vars

\* ------------------------------------------- callers of one MCPClient object
\* One task calls the public coroutines of one client in any order; a second
\* task may call cleanup() at any time (an error path, the shutdown).
HarnessClient == 1

CallInit(t) ==
    /\ pc = "off" /\ op[t].name = "idle" /\ calls < MaxCalls
    /\ calls' = calls + 1
    /\ op' = [op EXCEPT ![t] = NewOp("init", HarnessClient, "none", "none", 0)]
    /\ UNCHANGED <<quiet, res, chatVars>>

CallCleanup(t) ==
    /\ pc = "off" /\ op[t].name = "idle" /\ calls < MaxCalls
    /\ calls' = calls + 1
    /\ op' = [op EXCEPT ![t] = NewOp("cleanup", HarnessClient, "none", "none", 0)]
    /\ cleanupLog' = Append(cleanupLog, HarnessClient)
    /\ UNCHANGED <<clientState, res, chatVars>>

\* list_tools, list_resources, list_resource_templates, list_prompts
CallList(t) ==
    /\ pc = "off" /\ op[t].name = "idle" /\ calls < MaxCalls
    /\ calls' = calls + 1
    /\ \E kind \in Kinds :
          op' = [op EXCEPT ![t] = NewOp("list", HarnessClient, kind, "none", 0)]
    /\ UNCHANGED <<quiet, res, chatVars>>

\* the retries arguments execute_tool is called with: a negative one, zero
\* and the positive ones up to the bound
RetriesArgs == {-1} \union (0..MaxRetries)

CallExec(t) ==
    /\ pc = "off" /\ op[t].name = "idle" /\ calls < MaxCalls
    /\ calls' = calls + 1
    /\ \E retries \in RetriesArgs :
          op' = [op EXCEPT ![t] = NewOp("exec", HarnessClient, "none", "add", retries)]
    /\ UNCHANGED <<quiet, res, chatVars>>

InitClient ==
    /\ InitClientState
    /\ InitChatState
    /\ remoteTools = [c \in Clients |-> <<"add">>]
    /\ pc = "off"

NextClient ==
    \/ CallInit(Main) \/ CallList(Main) \/ CallExec(Main)
    \/ \E t \in Tasks : CallCleanup(t) \/ ClientStep(t)

SpecClient == InitClient /\ [][NextClient]_vars

\* ------------------------------------------------ the parser, on its own
\* Replies of the LM made of a lead, an object and a tail.
Leads == {<<>>, <<"Sure:">>, <<"FENCEjson", "\n">>, <<"Sure:", "\n", "FENCE", "\n">>,
          <<"BQ">>, <<"{", "\"note\":", "\"x\"", "}">>}

R_notool == <<"{", "\"arguments\":", "{", "}", "}">>
R_nested == <<"{", "\"note\":", "{", "\"tool\":", "\"sub\"", ",",
              "\"arguments\":", "{", "}", "}", "}">>

Bodies == {R_plain, R_call, R_badargs, R_badjson, R_notool, R_nested}

Trails == {<<>>, <<" ">>, <<"\n", "FENCE">>, <<"Done.">>, <<"FENCE", "Done.">>, <<"}">>}

ParseInputs == {lead \o body \o trail : lead \in Leads, body \in Bodies, trail \in Trails}

\* process_llm_response(llm_response), up to the call of _execute_tool
ProcessReply ==
    /\ pc = "parse"
    /\ pc' = "parsed"
    /\ cyc' = [cyc EXCEPT !.reply = llm_response, !.kind = ParseKind(llm_response)]
    /\ UNCHANGED <<clientVars, calls, idx, messages, tools, llm_response, tool_result,
                   after, raisedErr, reads, hist>>

InitParse ==
    /\ InitClientState
    /\ idx = 1 /\ messages = <<>> /\ tools = <<>>
    /\ tool_result = NoToolResponse
    /\ after = "none" /\ raisedErr = "none" /\ reads = 0
    /\ hist = NoHist /\ cyc = NoCycle
    /\ remoteTools = [c \in Clients |-> <<"add">>]
    /\ llm_response \in ParseInputs
    /\ pc = "parse"

NextParse == ProcessReply

SpecParse == InitParse /\ [][NextParse]_vars

\* ================================================================== claims
RemoteCalls(log) == {i \in 1..Len(log) : log[i].remote}

\* C1: execute_tool with retries = N >= 1 on a Ready session makes at most N
\* calls to the remote tool; it returns the result of the first successful
\* call, which is its last call; when all N calls fail it raises the error of
\* the last failed call itself.
C1_RetryContract ==
    \A t \in Tasks :
        /\ (op[t].name = "exec" /\ op[t].retries >= 1) => op[t].sent <= op[t].retries
        /\ (res[t].name = "exec" /\ res[t].retries >= 1 /\ res[t].err # "NotInitialized") =>
             LET r == res[t]
                 n == Len(r.log) IN
             /\ r.sent <= r.retries
             /\ Cardinality(RemoteCalls(r.log)) = r.sent
             /\ r.status = "ok" =>
                  /\ n >= 1
                  /\ r.log[n].ok /\ r.log[n].remote
                  /\ r.val = r.log[n].val
                  /\ \A i \in 1..(n - 1) : ~r.log[i].ok
             /\ (\E i \in 1..n : r.log[i].ok) => r.status = "ok"
             /\ (r.sent = r.retries /\ \A i \in 1..n : ~r.log[i].ok) =>
                  /\ r.status = "err"
                  /\ r.log[n].remote
                  /\ r.err = r.log[n].err

\* Both calls of a retries = 2 execute_tool failed, with different errors.
C1_Witness ==
    \E t \in Tasks :
        /\ res[t].name = "exec" /\ res[t].retries = 2 /\ res[t].status = "err"
        /\ res[t].sent = 2 /\ Len(res[t].log) = 2
        /\ res[t].log[1].err # res[t].log[2].err

\* C2: cleanup() calls on one session, one after the other or interleaved,
\* release each transport connection at most once in total, and no cleanup()
\* raises, also when the release itself fails.
C2_CleanupOnce ==
    /\ \A c \in Clients : released[c] <= opened[c]
    /\ \A t \in Tasks : res[t].name = "cleanup" => res[t].status = "ok"

\* Both tasks have returned from cleanup() on a session whose one transport
\* was released once, and the release failed (the session object was kept).
C2_Witness ==
    /\ \A t \in Tasks : res[t].name = "cleanup" /\ res[t].c = HarnessClient
    /\ opened[HarnessClient] = 1 /\ released[HarnessClient] = 1
    /\ session[HarnessClient]

\* The connection state of the data model, read off the fields of the client.
ConnState(c) ==
    IF session[c] /\ ~cleaned[c] THEN "Ready"
    ELSE IF cleaned[c] THEN "Closed" ELSE "Uninitialized"

ConnMoves == {<<"Uninitialized", "Ready">>, <<"Ready", "Closed">>,
              <<"Uninitialized", "Closed">>}

\* C9: the connection state of a session only moves along
\* Uninitialized -> Ready -> Closed (or directly to Closed), and Closed is
\* terminal: no call brings a cleaned-up session back to Ready.
C9_ClosedTerminal ==
    [][\A c \in Clients :
          \/ ConnState(c)' = ConnState(c)
          \/ <<ConnState(c), ConnState(c)'>> \in ConnMoves]_vars

\* C10: a listing or execute_tool call on a session that is not Ready (never
\* initialized, initialization failed, or cleaned up) fails with the
\* not-initialized error, sends nothing and leaves the session unchanged.
C10_NotReadyFails ==
    [][\A t \in Tasks :
          (/\ op[t].name \in {"list", "exec"}
           /\ op[t].pc = "enter"
           /\ ConnState(op[t].c) # "Ready"
           /\ op'[t] # op[t])
          => /\ op'[t].name = "idle"
             /\ res'[t].status = "err"
             /\ res'[t].err = "NotInitialized"
             /\ res'[t].sent = 0
             /\ session' = session
             /\ exit_stack' = exit_stack]_vars

\* the Turns the cycle has appended to the conversation, the user Turn first
Appended == SubSeq(messages, cyc.start + 1, Len(messages))

IsErrorText(content) ==
    content # <<>> /\ content[1] \in {"Error occurred: ", "Error executing tool: "}

\* the sessions whose remote server has a tool of that name
Listers(name) == {c \in Clients : name \in Range(remoteTools[c])}

\* the reply holds a well-formed object with a tool and an arguments member
ContainsToolCall(reply) ==
    \E i \in 1..Len(reply) : \E j \in i..Len(reply) :
        /\ reply[i] = "{"
        /\ JsonValid(SubSeq(reply, i, j))
        /\ json_loads(SubSeq(reply, i, j))["\"tool\":"].present
        /\ json_loads(SubSeq(reply, i, j))["\"arguments\":"].present

\* a cycle whose first reply asked for a tool is over
CallCycleOver == cyc.ended /\ cyc.reply # <<>> /\ ContainsToolCall(cyc.reply)

\* C3: an Invocation of tool X is executed on the one session that lists X and
\* on no other, whatever the other listings do; when no session lists X the
\* routing fails, nothing is executed and the failure is surfaced as an error,
\* not as a plain-text reply.
C3_Routing ==
    CallCycleOver =>
        LET X == ToolName(cyc.reply) IN
        /\ Cardinality(Listers(X)) = 1 => cyc.execOn = Listers(X)
        /\ Listers(X) = {} =>
             /\ cyc.execOn = {}
             /\ IsErrorText(messages[Len(messages)].content)

Pass == [i \in 1..NumClients |-> i]

\* C4 as claimed: when chat_loop is over cleanup() has been called on every
\* configured session exactly once, in configured order.
C4_CleanupExactlyOnce == pc = "done" => cleanupLog = Pass

\* C4 as amended: when chat_loop is over cleanup() has been called on every
\* configured session, each pass in configured order: one pass when startup
\* succeeded; when initialization of session k failed, once by that
\* initialization for k, then one pass by initialize_clients and one by the
\* finally clause.  A cleanup failure is never what chat_loop raises.
C4_CleanupPasses ==
    /\ pc = "done" =>
         cleanupLog = IF hist.failedAt = 0 THEN Pass
                      ELSE <<hist.failedAt>> \o Pass \o Pass
    /\ raisedErr \notin CloseErrors

\* chat_loop is over after the second session failed to initialize and
\* cleaned itself up first.
C4_Witness ==
    /\ pc = "done" /\ hist.failedAt = 2 /\ Len(cleanupLog) = 2 * NumClients + 1
    /\ cleanupLog[1] = 2

\* C5: startup initializes the sessions one at a time in configured order;
\* when session k fails no later session is initialized, every configured
\* session is cleaned up, the error leaves chat_loop, and there is no
\* capability discovery, no input read and no LM call.
C5_StartupAbort ==
    /\ hist.initLog = [i \in 1..Len(hist.initLog) |-> i]
    /\ hist.failedAt # 0 =>
         /\ Len(hist.initLog) = hist.failedAt
         /\ hist.listReqs = 0 /\ hist.inputReads = 0 /\ hist.llmCalls = 0
         /\ messages = <<>>
         /\ pc = "done" =>
              /\ raisedErr \in ConnErrors
              /\ \A c \in Clients : c \in Range(cleanupLog) /\ ~Connected(c)

\* chat_loop has raised the error of the second session; the first was Ready.
C5_Witness ==
    /\ pc = "done" /\ hist.failedAt = 2 /\ raisedErr \in ConnErrors
    /\ opened[1] = 1 /\ released[1] = 1

\* C6: a cycle that fails in routing, in the tool execution or in the second
\* LM call ends with a system Turn describing the error, and the loop reads
\* the next input.
C6_CycleErrorsRecorded ==
    (cyc.ended /\ cyc.fail \in {"routing", "exec", "llm2"}) =>
        /\ pc = "input"
        /\ Len(Appended) >= 2
        /\ messages[Len(messages)].role = "system"
        /\ IsErrorText(messages[Len(messages)].content)

\* a cycle with a tool call, a result that is no progress result and a
\* final text that is not empty
AnsweredCycle ==
    /\ cyc.ended /\ cyc.kind = "answered"
    /\ ~Classify(cyc.result).is_progress
    /\ cyc.final # <<>>

\* C7 as claimed: such a cycle appends, after the user Turn, the raw reply as
\* assistant Turn, a system Turn with the stringified result and the final
\* assistant Turn.
C7_ThreeTurns ==
    AnsweredCycle =>
        /\ Appended[1].role = "user"
        /\ Tail(Appended) = <<Turn("assistant", cyc.reply),
                              Turn("system", Str(cyc.result)),
                              Turn("assistant", cyc.final)>>

\* C7 as amended: such a cycle appends, after the user Turn, the raw reply as
\* assistant Turn and the final assistant Turn; the system Turn with the
\* stringified result follows the conversation in what the second LM call is
\* sent, and is not appended to the conversation.
C7_ResultOnlySent ==
    AnsweredCycle =>
        /\ Appended[1].role = "user"
        /\ Tail(Appended) = <<Turn("assistant", cyc.reply),
                              Turn("assistant", cyc.final)>>
        /\ cyc.lmIn = SubSeq(messages, 1, Len(messages) - 1)
                      \o <<Turn("system", Str(cyc.result))>>

\* the add tool returned 5 and the LM answered The result is 5.
C7_Witness ==
    /\ AnsweredCycle
    /\ cyc.result = IntResult(5) /\ Str(cyc.result) = <<"5">>
    /\ cyc.final = <<"The result is 5.">>

\* C8: a cycle whose reply holds no tool-call object appends the reply
\* verbatim as one assistant Turn after the user Turn, executes no tool and
\* calls the LM once.
C8_NoCall ==
    (cyc.ended /\ cyc.reply # <<>> /\ ~ContainsToolCall(cyc.reply)) =>
        /\ Len(Appended) = 2
        /\ Appended[1].role = "user"
        /\ Appended[2] = Turn("assistant", cyc.reply)
        /\ cyc.execOn = {} /\ cyc.calls = 0 /\ cyc.listed = 0
        /\ cyc.llm = 1

\* the reply was a fenced object with a tool member and no arguments member
C8_Witness ==
    /\ cyc.ended /\ cyc.reply = R_nokeys /\ ~ContainsToolCall(cyc.reply)
    /\ messages[Len(messages)] = Turn("assistant", R_nokeys)

\* C11: when a step of initialization() fails, the cleanup() of the session has
\* completed before the error reaches the caller, the error raised is the one
\* that made the step fail, and afterwards no resource of the session is open,
\* the lock is free and the session is not Ready; the failed initialization has
\* not set a client session.
C11_InitFailureCleansUp ==
    [][\A t \in Tasks : \A c \in Clients :
          (op[t].name = "init" /\ op[t].c = c /\ op'[t].name = "idle") =>
             \/ res'[t].status = "ok"
             \/ /\ res'[t].status = "err"
                /\ op[t].pc \in {"cl_enter", "cl_closing"}
                /\ op[t].err \in ConnErrors
                /\ res'[t].err = op[t].err
                /\ c \in Range(cleanupLog)
                /\ exit_stack'[c] = <<>>
                /\ ~Connected(c)'
                /\ released'[c] = opened'[c]
                /\ lock'[c] = NoTask
                /\ ConnState(c)' # "Ready"
                /\ session'[c] => session[c]]_vars

\* The first call on the session was an initialization whose handshake failed
\* after the transport was opened: the error has reached the caller and the
\* transport is released.
C11_Witness ==
    /\ calls = 1 /\ op[Main].name = "idle"
    /\ res[Main].name = "init" /\ res[Main].status = "err"
    /\ opened[HarnessClient] = 1 /\ released[HarnessClient] = 1
    /\ ~session[HarnessClient]

\* the object taken from the reply has a tool member and an arguments member
\* that is not an object
ArgumentsMalformed(reply) ==
    /\ HasJsonSpan(CleanedText(reply))
    /\ JsonValid(clean_json_response(reply))
    /\ json_loads(clean_json_response(reply))["\"tool\":"].present
    /\ json_loads(clean_json_response(reply))["\"arguments\":"].present
    /\ ~json_loads(clean_json_response(reply))["\"arguments\":"].isObj

\* C12: a reply whose object has a tool member and an arguments member that
\* is not an object yields a parse error: no capability is looked up, no tool
\* is executed with these arguments, and the cycle does not end with the reply
\* as plain assistant text.
C12_MalformedArguments ==
    (cyc.reply # <<>> /\ ArgumentsMalformed(cyc.reply)) =>
        /\ cyc.listed = 0
        /\ op[Main].name # "exec"
        /\ cyc.calls = 0 /\ cyc.execOn = {}
        /\ cyc.ended => messages[Len(messages)] # Turn("assistant", cyc.reply)

\* the well-formed objects with a tool and an arguments member in the reply,
\* as the positions of their braces
WellFormedCalls(reply) ==
    {ij \in (1..Len(reply)) \X (1..Len(reply)) :
        /\ ij[1] < ij[2] /\ reply[ij[1]] = "{" /\ reply[ij[2]] = "}"
        /\ JsonValid(SubSeq(reply, ij[1], ij[2]))
        /\ json_loads(SubSeq(reply, ij[1], ij[2]))["\"tool\":"].present
        /\ json_loads(SubSeq(reply, ij[1], ij[2]))["\"arguments\":"].isObj}

\* C13: a reply that holds exactly one well-formed object with tool and
\* arguments, with or without fences and surrounding prose, is parsed as the
\* Invocation made of that object; a reply that holds none is NoCall.
C13_ParserExtracts ==
    pc = "parsed" =>
        /\ Cardinality(WellFormedCalls(cyc.reply)) = 1 =>
              /\ cyc.kind = "call"
              /\ \A ij \in WellFormedCalls(cyc.reply) :
                    JsonTokens(clean_json_response(cyc.reply))
                        = JsonTokens(SubSeq(cyc.reply, ij[1], ij[2]))
        /\ WellFormedCalls(cyc.reply) = {} => cyc.kind # "call"

\* the tools of the sessions whose listing succeeded, in the order queried
RECURSIVE Discovered(_)
Discovered(disc) ==
    IF disc = <<>> THEN <<>>
    ELSE Discovered(SubSeq(disc, 1, Len(disc) - 1))
         \o (IF disc[Len(disc)].ok THEN remoteTools[disc[Len(disc)].c] ELSE <<>>)

\* C14: discovery queries every configured session in configured order; a
\* session whose listing fails is skipped without aborting discovery or the
\* chat loop, and the tools discovered are the concatenation, in configured
\* order, of the tools of the sessions whose listing succeeded.
C14_Discovery ==
    /\ \A i \in 1..Len(hist.disc) : hist.disc[i].c = i
    /\ pc \in {"discover", "discover_wait", "build"} =>
          /\ tools = Discovered(hist.disc)
          /\ hist.listReqs = Len(hist.disc) + (IF pc = "discover_wait" THEN 1 ELSE 0)
    /\ pc = "discover" => Len(hist.disc) = idx - 1
    /\ pc = "build" =>
          /\ Len(hist.disc) = NumClients
          /\ raisedErr = "none" /\ hist.exit = "none"
    /\ (pc = "input" /\ messages # <<>>) => messages[1] = build_system_message(tools)

\* discovery is over: the listing of the first session failed, the one of the
\* last did not
C14_Witness ==
    /\ pc = "build" /\ Len(hist.disc) = NumClients
    /\ ~hist.disc[1].ok /\ hist.disc[NumClients].ok
    /\ tools = remoteTools[NumClients]

\* C15: a raw result that is a mapping with a progress key is classified as a
\* progress result with the progress of the mapping and its total, or 1 when
\* the mapping has no total; every other raw result is classified as no
\* progress result with the raw result as payload.
C15_ProgressClassification ==
    /\ pc = "llm2" =>
          /\ tool_result.content = cyc.result
          /\ (cyc.result.type = "dict" /\ cyc.result.hasProgress) =>
                /\ tool_result.is_progress
                /\ tool_result.progress = cyc.result.v
                /\ cyc.result.hasTotal => tool_result.total = cyc.result.total
                /\ ~cyc.result.hasTotal => tool_result.total = 1
          /\ ~(cyc.result.type = "dict" /\ cyc.result.hasProgress) =>
                ~tool_result.is_progress
    /\ (cyc.ended /\ cyc.fail = "format") =>
          cyc.result.type = "dict" /\ cyc.result.hasProgress
          /\ cyc.result.hasTotal /\ cyc.result.total = 0

\* the tool returned a mapping with progress 3 and no total
C15_Witness ==
    /\ pc = "llm2" /\ cyc.result = ProgressOnly(3)
    /\ tool_result.is_progress /\ tool_result.total = DefaultTotal
    /\ messages[Len(messages)].content = <<"Progress: ", "3", "/", "1", " (", "300", ".", "0", "%", ")">>

\* C16: after a quit phrase, in any letter case, or an interrupt during the
\* input wait no Turn is appended and no LM call or tool call is made, the
\* loop is over and the cleanup of the sessions runs; no quit phrase is ever
\* taken as a user Turn.
C16_QuitOrInterrupt ==
    /\ hist.exit \in {"quit", "interrupt"} =>
          /\ pc \in {"finally", "cc", "cc_wait", "done"}
          /\ cyc.kind = hist.exit
          /\ Len(messages) = cyc.start
          /\ cyc.llm = 0 /\ cyc.listed = 0 /\ cyc.calls = 0
          /\ op[Main].name \in {"idle", "cleanup"}
          /\ raisedErr = "none"
          /\ pc = "done" => cleanupLog = Pass
    /\ \A i \in 1..Len(messages) :
          messages[i].role = "user" =>
              ~(Len(messages[i].content) = 1
                /\ Lower(messages[i].content[1]) \in QuitPhrases)

\* the user has quit after one cycle and every session has been cleaned up
C16_Witness ==
    /\ pc = "done" /\ hist.exit = "quit" /\ reads = 1
    /\ Len(messages) >= 3 /\ cleanupLog = Pass
    /\ \A c \in Clients : ~Connected(c)

\* C17: an input that is empty after trimming is ignored: the conversation,
\* the sessions and the connections are left as they are, no LM call and no
\* call of a session is made, and the loop reads the next input; no blank
\* text is ever taken as a user Turn.
C17_EmptyInputIgnored ==
    [][/\ (pc = "input" /\ hist'.inputReads # hist.inputReads /\ cyc'.kind = "empty") =>
            /\ messages' = messages
            /\ pc' = "input"
            /\ hist'.llmCalls = hist.llmCalls /\ hist'.listReqs = hist.listReqs
            /\ cyc'.llm = 0 /\ cyc'.listed = 0 /\ cyc'.calls = 0
            /\ UNCHANGED <<clientVars, tools, raisedErr>>
       /\ \A i \in 1..Len(messages') :
            messages'[i].role = "user" =>
                /\ messages'[i].content # <<>>
                /\ messages'[i].content[1] \notin Whitespace
                /\ messages'[i].content[Len(messages'[i].content)] \notin Whitespace]_vars

\* an empty input was read and ignored, the loop waits for the next input
C17_Witness ==
    /\ pc = "input" /\ cyc.kind = "empty" /\ cyc.ended
    /\ hist.inputReads = 1 /\ hist.llmCalls = 0
    /\ messages = <<build_system_message(tools)>>

IsPrefix(s, t) == Len(s) <= Len(t) /\ SubSeq(t, 1, Len(s)) = s

\* C18: the conversation is append-only: every step of chat_loop leaves the
\* conversation it found as a prefix of the conversation, in cycles that fail
\* as in cycles that succeed; every call of the LM is sent the whole
\* conversation in order: the first call of a cycle the conversation itself,
\* the second the conversation followed by the Turn that holds the result.
C18_AppendOnly ==
    [][/\ IsPrefix(messages, messages')
       /\ hist'.llmCalls # hist.llmCalls =>
            /\ IsPrefix(messages, cyc'.lmIn)
            /\ Len(cyc'.lmIn) <= Len(messages) + 1
            /\ pc = "llm1" => cyc'.lmIn = messages
            /\ pc = "llm2" => cyc'.lmIn[Len(cyc'.lmIn)].role = "system"]_vars

\* a cycle whose second LM call failed is over: the conversation has grown by
\* the user Turn, the reply and the Turn of the error
C18_Witness ==
    /\ cyc.ended /\ cyc.fail = "llm2" /\ cyc.llm = 2
    /\ Len(messages) = cyc.start + 3
    /\ SubSeq(cyc.lmIn, 1, Len(messages) - 1) = SubSeq(messages, 1, Len(messages) - 1)

\* C19: after every return of cleanup(), whatever the release did, the session
\* is Closed: it holds no client session, so that a later listing or
\* execute_tool fails as not initialized.
C19_CleanupCloses == \A c \in Clients : cleaned[c] => ~session[c]

\* C20: routing looks the tool up in what discovery has listed: while an
\* Invocation is routed no listing request goes to any session, a listing is
\* only ever requested by discovery.
C20_RoutingUsesCache ==
    /\ cyc.listed = 0
    /\ op[Main].name = "list" => pc = "discover_wait"
    /\ (cyc.ended /\ cyc.kind = "call") => cyc.fail # "listing"

\* C21: for every progress result, whatever its progress and total are, one
\* system Turn that gives progress/total as a percentage is appended after
\* the assistant Turn with the raw reply and before the second LM call, and
\* the second LM call is made and is sent that Turn.
C21_ProgressTurn ==
    (cyc.result.type = "dict" /\ cyc.result.hasProgress /\ (pc = "llm2" \/ cyc.ended)) =>
        /\ Len(Appended) >= 3
        /\ Appended[2] = Turn("assistant", cyc.reply)
        /\ Appended[3].role = "system"
        /\ Appended[3].content[1] = "Progress: "
        /\ \A i \in 4..Len(Appended) : Appended[i].role # "system" \/ cyc.fail = "llm2"
        /\ cyc.ended =>
              /\ cyc.llm = 2
              /\ Len(cyc.lmIn) >= cyc.start + 3
              /\ cyc.lmIn[cyc.start + 3] = Appended[3]

\* the positions of chat_loop inside the turn loop
CyclePcs == {"input", "llm1", "route_wait", "exec_wait", "llm2"}

\* C22: the turn loop is left only from the read of input, by a quit phrase
\* or a KeyboardInterrupt, with nothing appended and no error propagating;
\* an exception that reaches the handlers of the loop, the one raised by the
\* read of input included, ends the cycle with a system Turn 'Error
\* occurred' appended and the loop back at the read of input; while every
\* read has failed the loop is still running, one error Turn longer per
\* read, and shutdown has not started.
C22_LoopLeaves ==
    [][/\ (pc \in CyclePcs /\ pc' \notin CyclePcs) =>
            /\ pc = "input" /\ pc' = "finally"
            /\ cyc'.kind \in {"quit", "interrupt"}
            /\ hist'.exit = cyc'.kind
            /\ raisedErr' = "none"
            /\ messages' = messages
       /\ (pc \in CyclePcs /\ cyc'.ended /\ cyc' # cyc
               /\ cyc'.fail \in {"input", "llm1", "llm2", "format"}) =>
            /\ pc' = "input"
            /\ hist'.exit = "none"
            /\ raisedErr' = "none"
            /\ Len(messages') > Len(messages)
            /\ messages'[Len(messages')] = Turn("system", <<"Error occurred: ", cyc'.err>>)
            /\ SubSeq(messages', 1, Len(messages)) = messages
            /\ cleanupLog' = <<>>
       /\ (pc \in CyclePcs /\ cyc'.kind = "eof" /\ hist'.inputReads # hist.inputReads) =>
            /\ cyc'.fail = "input" /\ cyc'.ended
            /\ messages' = Append(messages, Turn("system", <<"Error occurred: ", "EOFError">>))
            /\ hist'.llmCalls = hist.llmCalls
            /\ UNCHANGED clientVars
       /\ (pc' \in CyclePcs \union {"finally", "cc", "cc_wait", "done"}
               /\ hist'.inputReads > 0
               /\ hist'.exit \notin {"quit", "interrupt"}
               /\ Len(messages') = 1 + hist'.inputReads
               /\ \A i \in 2..Len(messages') : messages'[i].role = "system") =>
            /\ pc' = "input"
            /\ cleanupLog' = <<>>]_vars

\* the input source has failed on every one of several reads: the loop is
\* at the read of input again, with one error Turn per read and no shutdown
C22_Witness ==
    /\ pc = "input" /\ reads = MaxFailedReads /\ reads > 1
    /\ hist.inputReads = reads /\ hist.exit = "none"
    /\ cyc.kind = "eof" /\ cyc.ended
    /\ Len(messages) = 1 + reads
    /\ \A i \in 2..Len(messages) :
          messages[i] = Turn("system", <<"Error occurred: ", "EOFError">>)
    /\ cleanupLog = <<>>


\* C23: execute_tool called with retries <= 0 on a session that is set makes
\* no call of the remote tool and records no attempt, and it returns None
\* without raising: the caller gets what a successful call of a tool that
\* returned None would give, and _execute_tool would wrap it in the same
\* ToolResponse.
C23_NoRetriesNoCall ==
    \A t \in Tasks :
        /\ (op[t].name = "exec" /\ op[t].retries <= 0) =>
              /\ op[t].sent = 0 /\ op[t].log = <<>>
              /\ op[t].pc = "enter"
        /\ (res[t].name = "exec" /\ res[t].retries <= 0 /\ res[t].err # "NotInitialized") =>
              /\ res[t].sent = 0
              /\ res[t].log = <<>>
              /\ res[t].status = "ok"
              /\ res[t].err = "none"
              /\ res[t].val = NoResult
              /\ Classify(res[t].val) = NoToolResponse

\* execute_tool has returned None from a call with a negative retries on a
\* session that is set and connected
C23_Witness ==
    /\ res[Main].name = "exec" /\ res[Main].retries < 0 /\ res[Main].status = "ok"
    /\ res[Main].val = NoResult /\ res[Main].sent = 0
    /\ session[HarnessClient] /\ Connected(HarnessClient)

====
